---- MODULE Spec2Model ----
(***************************************************************************)
(* A model of the Google Maps scraper: the text helpers and aggregation    *)
(* functions of scraper/utils.py, the browser session and extraction loop  *)
(* of scraper/google_maps.py, and the command-line run of main.py.         *)
(*                                                                         *)
(* A Python str is a sequence of one-character strings.  A float that a    *)
(* record list carries is an integer number of hundredths (4.5 is 450):    *)
(* every rating text of those lists has at most two fractional digits, so  *)
(* the scaling is exact.  The float extract_rating returns is kept as its  *)
(* decimal digits.                                                         *)
(***************************************************************************)
EXTENDS Integers, Sequences, FiniteSets, TLC

VARIABLES
    pc,          \* position of the command-line run (main / search_places)
    args,        \* parsed command-line arguments
    driver,      \* GoogleMapsScraper.driver: "None", "open" or "quit"
    opened,      \* number of browser sessions opened so far
    exc,         \* exception in flight inside search_places
    total,       \* _extract_places: total_to_process
    idx,         \* _extract_places: loop index i
    places,      \* _extract_places: the list being built
    scraped,     \* the list search_places returned
    results,     \* main: results
    xlsx_file,   \* the spreadsheet written by the run (Absent when none)
    json_file,   \* the JSON file written by the run (Absent when none)
    log,         \* tags of the messages logged
    printed,     \* tags of the messages printed
    exit_code,   \* exit status of the process: 0 unless sys.exit sets another
    fn,          \* library call: the utils function applied ("none" before the call)
    in_places,   \* library call: the list passed in
    in_min_rating,  \* library call: min_rating, in hundredths
    in_descending,  \* library call: descending
    out_places,  \* library call: the list returned
    visits,      \* _extract_places: what each round of the loop so far came to
    found,       \* _extract_places: len(elements), the results found at the start
    current,     \* _extract_places: len(current_elements) of the latest re-query
    in_text,     \* text call: the raw text passed in
    out_rating,  \* text call: what extract_rating returned
    out_count,   \* text call: what extract_review_count returned
    in_dom,      \* page call: what each selector of the list finds, in list order
    in_attr,     \* page call: TRUE when an attribute name is passed
    in_panel,    \* page call: the detail panel shown
    out_text,    \* page call: what the field extractor returned
    out_info     \* page call: what _extract_side_panel_info returned

vars == <<pc, args, driver, opened, exc, total, idx, places, scraped, results,
          xlsx_file, json_file, log, printed, exit_code,
          fn, in_places, in_min_rating, in_descending, out_places,
          visits, found, current, in_text, out_rating, out_count, in_dom, in_attr, in_panel,
          out_text, out_info>>

runVars == <<pc, args, driver, opened, exc, total, idx, places, scraped, results,
             xlsx_file, json_file, log, printed, exit_code, visits,
             found, current>>

unitVars == <<in_text, out_rating, out_count, in_dom, in_attr, in_panel,
              out_text, out_info>>

libVars == <<fn, in_places, in_min_rating, in_descending, out_places>>

----------------------------------------------------------------------------
(* Bounds *)

\* longest list handed to a utils function
MaxLen == 3

\* most result elements the feed shows
MaxElements == 2

----------------------------------------------------------------------------
(* Characters and text *)

UpperLetters == <<"A","B","C","D","E","F","G","H","I","J","K","L","M",
                  "N","O","P","Q","R","S","T","U","V","W","X","Y","Z">>

LowerLetters == <<"a","b","c","d","e","f","g","h","i","j","k","l","m",
                  "n","o","p","q","r","s","t","u","v","w","x","y","z">>

\* str.lower() on one character
LowerChar(c) ==
    IF \E k \in 1..Len(UpperLetters) : UpperLetters[k] = c
    THEN LowerLetters[CHOOSE k \in 1..Len(UpperLetters) : UpperLetters[k] = c]
    ELSE c

\* str.lower()
Lower(s) == [k \in 1..Len(s) |-> LowerChar(s[k])]

\* the characters the regex class \s and str.strip() treat as whitespace
IsSpace(c) == c \in {" ", "\t", "\n", "\r"}

\* the characters the regex class \d matches
IsDigit(c) == c \in {"0","1","2","3","4","5","6","7","8","9"}

DigitVal(c) ==
    CASE c = "0" -> 0 [] c = "1" -> 1 [] c = "2" -> 2 [] c = "3" -> 3
      [] c = "4" -> 4 [] c = "5" -> 5 [] c = "6" -> 6 [] c = "7" -> 7
      [] c = "8" -> 8 [] c = "9" -> 9

RECURSIVE LStrip(_)
LStrip(s) == IF s # <<>> /\ IsSpace(Head(s)) THEN LStrip(Tail(s)) ELSE s

RECURSIVE RStrip(_)
RStrip(s) ==
    IF s # <<>> /\ IsSpace(s[Len(s)]) THEN RStrip(SubSeq(s, 1, Len(s) - 1)) ELSE s

\* str.strip()
Strip(s) == RStrip(LStrip(s))

\* re.sub(r'\s+', ' ', text): every maximal run of whitespace becomes one space
RECURSIVE CollapseSpaces(_)
CollapseSpaces(s) ==
    IF s = <<>> THEN <<>>
    ELSE IF IsSpace(Head(s))
         THEN <<" ">> \o CollapseSpaces(LStrip(Tail(s)))
         ELSE <<Head(s)>> \o CollapseSpaces(Tail(s))

clean_text(text) ==
    IF text = <<>> THEN <<>> ELSE Strip(CollapseSpaces(text))

\* the decimal value of a run of digits (0 for the empty run)
RECURSIVE DigitsValue(_)
DigitsValue(ds) ==
    IF ds = <<>> THEN 0
    ELSE 10 * DigitsValue(SubSeq(ds, 1, Len(ds) - 1)) + DigitVal(ds[Len(ds)])

\* the characters of s that are digits, in order
OnlyDigits(s) == SelectSeq(s, IsDigit)

\* a digit group of a Python numeric literal: digits, single underscores
\* allowed between two digits
IsDigitGroup(s) ==
    /\ s # <<>>
    /\ \A k \in 1..Len(s) : IsDigit(s[k]) \/ s[k] = "_"
    /\ IsDigit(s[1]) /\ IsDigit(s[Len(s)])
    /\ \A k \in 1..(Len(s) - 1) : ~(s[k] = "_" /\ s[k + 1] = "_")

\* hundredths denoted by the fractional digits fs
FracHundredths(fs) ==
    (IF Len(fs) >= 1 THEN 10 * DigitVal(fs[1]) ELSE 0)
    + (IF Len(fs) >= 2 THEN DigitVal(fs[2]) ELSE 0)

\* index of the first "." of s, 0 when there is none
FirstDot(s) ==
    IF \E k \in 1..Len(s) : s[k] = "."
    THEN CHOOSE k \in 1..Len(s) : s[k] = "." /\ \A j \in 1..(k - 1) : s[j] # "."
    ELSE 0

NoValue == [kind |-> "err", v |-> 0]

\* float(text) for a str: surrounding whitespace is ignored, then an optional
\* sign and either "nan" in any case or digits with at most one decimal point.
\* kind "err" is ValueError.  Exponents and infinities are not interpreted:
\* no rating text of the model holds one.
PyFloat(text) ==
    LET t    == Strip(text)
        neg  == t # <<>> /\ Head(t) = "-"
        body == IF t # <<>> /\ Head(t) \in {"+", "-"} THEN Tail(t) ELSE t
        dot  == FirstDot(body)
        ip   == IF dot = 0 THEN body ELSE SubSeq(body, 1, dot - 1)
        fp   == IF dot = 0 THEN <<>> ELSE SubSeq(body, dot + 1, Len(body))
        mag  == 100 * DigitsValue(OnlyDigits(ip)) + FracHundredths(OnlyDigits(fp))
    IN  IF Lower(body) = <<"n", "a", "n">> THEN [kind |-> "nan", v |-> 0]
        ELSE IF /\ (ip = <<>> \/ IsDigitGroup(ip))
                /\ (fp = <<>> \/ IsDigitGroup(fp))
                /\ (ip # <<>> \/ fp # <<>>)
             THEN [kind |-> "num", v |-> IF neg THEN 0 - mag ELSE mag]
             ELSE NoValue

\* int(text) for a str: surrounding whitespace ignored, optional sign, one
\* digit group.  kind "err" is ValueError.
PyInt(text) ==
    LET t    == Strip(text)
        neg  == t # <<>> /\ Head(t) = "-"
        body == IF t # <<>> /\ Head(t) \in {"+", "-"} THEN Tail(t) ELSE t
        mag  == DigitsValue(OnlyDigits(body))
    IN  IF IsDigitGroup(body)
        THEN [kind |-> "num", v |-> IF neg THEN 0 - mag ELSE mag]
        ELSE NoValue

----------------------------------------------------------------------------
(* Rating and review-count normalisation (scraper/utils.py) *)

\* index of the last character of the digit run that starts at p
\* (p - 1 when s[p] is no digit)
DigitRunEnd(s, p) ==
    CHOOSE q \in (p - 1)..Len(s) :
        /\ \A j \in p..q : IsDigit(s[j])
        /\ (q = Len(s) \/ ~IsDigit(s[q + 1]))

\* a variant with the narrower pattern (\d\.\d): the first digit, decimal
\* point, digit of the text, <<>> when there is none
FirstDigitDotDigit(text) ==
    IF \E k \in 1..(Len(text) - 2) :
          IsDigit(text[k]) /\ text[k + 1] = "." /\ IsDigit(text[k + 2])
    THEN LET p == CHOOSE k \in 1..(Len(text) - 2) :
                      /\ IsDigit(text[k]) /\ text[k + 1] = "." /\ IsDigit(text[k + 2])
                      /\ \A j \in 1..(k - 1) :
                            ~(IsDigit(text[j]) /\ text[j + 1] = "." /\ IsDigit(text[j + 2]))
         IN  SubSeq(text, p, p + 2)
    ELSE <<>>

\* re.search(r'(\d+\.?\d*)', text).group(1), <<>> when nothing matches
RatingMatch(text) ==
    IF \A k \in 1..Len(text) : ~IsDigit(text[k]) THEN <<>>
    ELSE LET p == CHOOSE k \in 1..Len(text) :
                      IsDigit(text[k]) /\ \A j \in 1..(k - 1) : ~IsDigit(text[j])
             q == DigitRunEnd(text, p)
             r == IF q < Len(text) /\ text[q + 1] = "."
                  THEN DigitRunEnd(text, q + 2) ELSE q
         IN  SubSeq(text, p, r)

\* a float got from a decimal literal, kept as its digits: ip the integer
\* digits without leading zeros, fp the fractional digits without trailing
\* zeros.  Two literals of at most 15 significant digits denote the same float
\* exactly when these digits agree.
RECURSIVE StripLeadingZeros(_)
StripLeadingZeros(ds) ==
    IF ds # <<>> /\ Head(ds) = "0" THEN StripLeadingZeros(Tail(ds)) ELSE ds

RECURSIVE StripTrailingZeros(_)
StripTrailingZeros(ds) ==
    IF ds # <<>> /\ ds[Len(ds)] = "0"
    THEN StripTrailingZeros(SubSeq(ds, 1, Len(ds) - 1)) ELSE ds

FloatZero == [ip |-> <<>>, fp |-> <<>>]

\* a variant that drops the decimal point, as the review-count clean-up does
MatchFloatNoPoint(m) ==
    [ip |-> StripLeadingZeros(OnlyDigits(m)), fp |-> <<>>]

\* float(match.group(1)): the match is digits, then possibly "." and digits
MatchFloat(m) ==
    LET dot == FirstDot(m)
        ip  == IF dot = 0 THEN m ELSE SubSeq(m, 1, dot - 1)
        fp  == IF dot = 0 THEN <<>> ELSE SubSeq(m, dot + 1, Len(m))
    IN  [ip |-> StripLeadingZeros(ip), fp |-> StripTrailingZeros(fp)]

\* the float in hundredths, rounded down
Hundredths(d) == 100 * DigitsValue(d.ip) + FracHundredths(d.fp)

DigitChar(n) == CHOOSE c \in {"0","1","2","3","4","5","6","7","8","9"} : DigitVal(c) = n

\* the exponent of a float's textual form: at least two digits
ExponentDigits(e) ==
    IF e < 100 THEN <<DigitChar(e \div 10), DigitChar(e % 10)>>
    ELSE <<DigitChar(e \div 100), DigitChar((e \div 10) % 10), DigitChar(e % 10)>>

\* number of zeros fp starts with
RECURSIVE LeadingZeros(_)
LeadingZeros(ds) ==
    IF ds # <<>> /\ Head(ds) = "0" THEN 1 + LeadingZeros(Tail(ds)) ELSE 0

Scientific(sig, sign, e) ==
    <<Head(sig)>> \o (IF Len(sig) > 1 THEN <<".">> \o Tail(sig) ELSE <<>>)
    \o <<"e", sign>> \o ExponentDigits(e)

\* str(x) for a float x >= 0: positional with at least one fractional digit,
\* and exponent notation below 0.0001 and from 1e16 on
FloatStr(d) ==
    IF d.ip = <<>>
    THEN IF d.fp = <<>> THEN <<"0", ".", "0">>
         ELSE IF LeadingZeros(d.fp) >= 4
              THEN Scientific(StripLeadingZeros(d.fp), "-", LeadingZeros(d.fp) + 1)
              ELSE <<"0", ".">> \o d.fp
    ELSE IF Len(d.ip) > 16
         THEN Scientific(StripTrailingZeros(d.ip \o d.fp), "+", Len(d.ip) - 1)
         ELSE d.ip \o <<".">> \o (IF d.fp = <<>> THEN <<"0">> ELSE d.fp)

extract_rating(rating_text) ==
    IF rating_text = <<>> THEN FloatZero
    ELSE IF RatingMatch(rating_text) # <<>>
         THEN MatchFloat(RatingMatch(rating_text))
         ELSE FloatZero

\* a variant that reads the first run of digits only, as a search for \d+
\* would
extract_first_digit_run(review_text) ==
    IF \A k \in 1..Len(review_text) : ~IsDigit(review_text[k]) THEN 0
    ELSE LET p == CHOOSE k \in 1..Len(review_text) :
                      IsDigit(review_text[k]) /\ \A j \in 1..(k - 1) : ~IsDigit(review_text[j])
         IN  DigitsValue(SubSeq(review_text, p, DigitRunEnd(review_text, p)))

extract_review_count(review_text) ==
    IF review_text = <<>> THEN 0
    ELSE IF OnlyDigits(review_text) # <<>>
         THEN DigitsValue(OnlyDigits(review_text))
         ELSE 0

----------------------------------------------------------------------------
(* Aggregation (scraper/utils.py) *)

\* key = f"{name}_{address}" of merge_duplicate_places
DedupKey(place) ==
    clean_text(place.name) \o <<"_">> \o clean_text(place.address)

RECURSIVE MergeLoop(_, _, _)
MergeLoop(todo, seen, unique_places) ==
    IF todo = <<>> THEN unique_places
    ELSE LET place == Head(todo)
             key   == DedupKey(place)
         IN  IF key # <<>> /\ key \notin seen
             THEN MergeLoop(Tail(todo), seen \cup {key}, Append(unique_places, place))
             ELSE MergeLoop(Tail(todo), seen, unique_places)

\* a variant that writes the cleaned name and address back into the records
\* it keeps
merge_cleaned_places(ps) ==
    LET kept == MergeLoop(ps, {}, <<>>)
    IN  [k \in 1..Len(kept) |->
            [kept[k] EXCEPT !.name = clean_text(@), !.address = clean_text(@)]]

merge_duplicate_places(ps) == MergeLoop(ps, {}, <<>>)

\* the body of the loop of filter_places_by_rating: float() raising
\* ValueError skips the record
PassesRating(place, min_rating) ==
    /\ PyFloat(place.rating).kind = "num"
    /\ PyFloat(place.rating).v >= min_rating

filter_places_by_rating(ps, min_rating) ==
    LET Keep(place) == PassesRating(place, min_rating)
    IN  SelectSeq(ps, Keep)

\* a < b on two values float() or int() returned; false when one is nan
KeyLess(a, b) == a.kind = "num" /\ b.kind = "num" /\ a.v < b.v

\* sorted(): a stable sort of the indices 1..n by keys; with reverse=True the
\* order is descending and equal keys still keep their input order.  (With a
\* nan key CPython's order depends on its merge strategy; no text of the
\* model is nan.)
RECURSIVE InsertIdx(_, _, _, _)
InsertIdx(sorted, j, keys, reverse) ==
    IF sorted = <<>> THEN <<j>>
    ELSE IF (IF reverse THEN KeyLess(keys[Head(sorted)], keys[j])
                        ELSE KeyLess(keys[j], keys[Head(sorted)]))
         THEN <<j>> \o sorted
         ELSE <<Head(sorted)>> \o InsertIdx(Tail(sorted), j, keys, reverse)

RECURSIVE SortIdx(_, _, _)
SortIdx(n, keys, reverse) ==
    IF n = 0 THEN <<>>
    ELSE InsertIdx(SortIdx(n - 1, keys, reverse), n, keys, reverse)

PySorted(xs, keys, reverse) ==
    [k \in 1..Len(xs) |-> xs[SortIdx(Len(xs), keys, reverse)[k]]]

\* the key function raising for one element makes sorted() raise; the
\* except branch logs a warning and returns the list as it was passed
sort_places_by_rating(ps, descending) ==
    IF \E k \in 1..Len(ps) : PyFloat(ps[k].rating).kind = "err"
    THEN ps
    ELSE PySorted(ps, [k \in 1..Len(ps) |-> PyFloat(ps[k].rating)], descending)

sort_places_by_reviews(ps, descending) ==
    IF \E k \in 1..Len(ps) : PyInt(ps[k].reviews).kind = "err"
    THEN ps
    ELSE PySorted(ps, [k \in 1..Len(ps) |-> PyInt(ps[k].reviews)], descending)

----------------------------------------------------------------------------
(* Place records *)

NA == <<"N", "/", "A">>

\* time.strftime('%Y-%m-%d %H:%M:%S') at capture: one fixed instant
Stamp == <<"t">>

\* the mapping _extract_side_panel_info builds, with every field given
Place(name, address, phone, website, category, rating, reviews) ==
    [name |-> name, address |-> address, phone |-> phone, website |-> website,
     category |-> category, rating |-> rating, reviews |-> reviews,
     extracted_at |-> Stamp]

----------------------------------------------------------------------------
(* Calls of the aggregation functions on arbitrary lists *)

Absent == "absent"

\* an output file that was not created
NoFile == [state |-> Absent, rows |-> <<>>]

\* (name, address) pairs: the first two are different pairs with the same
\* joined key, the last two are one pair once cleaned
\* the variables of a text or page call, before any such call
IdleUnit ==
    /\ in_text = <<>> /\ out_rating = FloatZero /\ out_count = 0
    /\ in_dom = <<>> /\ in_attr = FALSE /\ in_panel = <<>>
    /\ out_text = <<>> /\ out_info = <<>>

LibPairs ==
    { << <<"a", "_">>, <<>> >>,
      << <<"a">>, <<"_">> >>,
      << <<" ", "a">>, <<"_", "\t">> >> }

\* rating texts: two numbers, the sentinel, and a number followed by a word
LibRatings ==
    { <<"4", ".", "1">>, <<"4", ".", "7">>, NA, <<"4", ".", "5", " ", "s">> }

LibPlaces ==
    { Place(p[1], p[2], NA, NA, NA, r, <<"0">>) : p \in LibPairs, r \in LibRatings }

\* ratings 4.1, 4.7, 4.1, "N/A" on four different places
ExampleRatings ==
    << Place(<<"a">>, <<"w">>, NA, NA, NA, <<"4", ".", "1">>, <<"0">>),
       Place(<<"a">>, <<"x">>, NA, NA, NA, <<"4", ".", "7">>, <<"0">>),
       Place(<<"a">>, <<"y">>, NA, NA, NA, <<"4", ".", "1">>, <<"0">>),
       Place(<<"a">>, <<"z">>, NA, NA, NA, NA, <<"0">>) >>

\* review counts: two plain integers, one with a thousands separator, one
\* followed by a word
ReviewPlaces ==
    { Place(<<"a">>, NA, NA, NA, NA, <<"4", ".", "1">>, <<"5">>),
      Place(<<"b">>, NA, NA, NA, NA, <<"4", ".", "1">>, <<"1", "2">>),
      Place(<<"c">>, NA, NA, NA, NA, <<"4", ".", "1">>, <<"1", ",", "2", "3", "4">>),
      Place(<<"d">>, NA, NA, NA, NA, <<"4", ".", "1">>,
            <<"5", "8", " ", "r", "e", "v", "i", "e", "w", "s">>) }

LibLists ==
    UNION { [1..n -> LibPlaces] : n \in 0..MaxLen }
    \cup UNION { [1..n -> ReviewPlaces] : n \in 0..MaxLen }
    \cup { ExampleRatings }

\* thresholds, in hundredths
LibThresholds == {0, 450}

IdleArgs == [min_rating |-> 0, sort_by |-> "None", format |-> "xlsx", max_results |-> 0]

LibInit ==
    /\ pc = "lib" /\ args = IdleArgs /\ driver = "None" /\ opened = 0
    /\ exc = "none" /\ total = 0 /\ idx = 0 /\ places = <<>> /\ scraped = <<>>
    /\ results = <<>> /\ xlsx_file = NoFile /\ json_file = NoFile
    /\ log = {} /\ printed = {} /\ exit_code = 0
    /\ fn = "none" /\ in_places \in LibLists
    /\ in_min_rating = 0 /\ in_descending = TRUE /\ out_places = <<>>
    /\ visits = <<>> /\ found = 0 /\ current = 0 /\ IdleUnit

CallMerge ==
    /\ pc = "lib" /\ fn = "none"
    /\ fn' = "merge_duplicate_places"
    /\ out_places' = merge_duplicate_places(in_places)
    /\ UNCHANGED <<runVars, unitVars, in_places, in_min_rating, in_descending>>

CallFilter ==
    /\ pc = "lib" /\ fn = "none"
    /\ \E t \in LibThresholds :
        /\ in_min_rating' = t
        /\ out_places' = filter_places_by_rating(in_places, t)
    /\ fn' = "filter_places_by_rating"
    /\ UNCHANGED <<runVars, unitVars, in_places, in_descending>>

CallSortRating ==
    /\ pc = "lib" /\ fn = "none"
    /\ \E d \in BOOLEAN :
        /\ in_descending' = d
        /\ out_places' = sort_places_by_rating(in_places, d)
    /\ fn' = "sort_places_by_rating"
    /\ UNCHANGED <<runVars, unitVars, in_places, in_min_rating>>

CallSortReviews ==
    /\ pc = "lib" /\ fn = "none"
    /\ \E d \in BOOLEAN :
        /\ in_descending' = d
        /\ out_places' = sort_places_by_reviews(in_places, d)
    /\ fn' = "sort_places_by_reviews"
    /\ UNCHANGED <<runVars, unitVars, in_places, in_min_rating>>

LibNext == CallMerge \/ CallFilter \/ CallSortRating \/ CallSortReviews

LibSpec == LibInit /\ [][LibNext]_vars

----------------------------------------------------------------------------
(* Claims about the aggregation functions *)

\* the elements of s at the indices in I, in order
RECURSIVE PickFrom(_, _, _)
PickFrom(s, I, k) ==
    IF k > Len(s) THEN <<>>
    ELSE (IF k \in I THEN <<s[k]>> ELSE <<>>) \o PickFrom(s, I, k + 1)

CleanPair(place) == <<clean_text(place.name), clean_text(place.address)>>

FirstOfPair(ps) ==
    { k \in 1..Len(ps) : \A j \in 1..(k - 1) : CleanPair(ps[j]) # CleanPair(ps[k]) }

\* C1: merge_duplicate_places returns, in input order, exactly the first
\* record of every distinct (cleaned name, cleaned address) pair of the input.
C1_OneRecordPerPair ==
    fn = "merge_duplicate_places"
        => out_places = PickFrom(in_places, FirstOfPair(in_places), 1)

NormalizedAtLeast(place, t) ==
    /\ RatingMatch(place.rating) # <<>>
    /\ Hundredths(extract_rating(place.rating)) >= t

\* C3: filter_places_by_rating returns, in input order, exactly the records
\* whose normalized rating (extract_rating of the rating text) is defined
\* and at least the threshold.
C3_FilterByNormalizedRating ==
    fn = "filter_places_by_rating"
        => out_places =
             PickFrom(in_places,
                      { k \in 1..Len(in_places) :
                            NormalizedAtLeast(in_places[k], in_min_rating) }, 1)

IndexPermutations(n) ==
    { f \in [1..n -> 1..n] : \A a, b \in 1..n : f[a] = f[b] => a = b }

\* the rating as a number, 0 when float() does not accept the text
RatingOrZero(place) ==
    IF PyFloat(place.rating).kind = "num" THEN PyFloat(place.rating).v ELSE 0

\* C4: descending sort_places_by_rating returns a permutation of the input in
\* non-increasing rating order, a rating that is no number counting as 0, and
\* records of equal rating keeping their input order.
C4_SortTreatsUncoercibleAsZero ==
    (fn = "sort_places_by_rating" /\ in_descending)
        => /\ Len(out_places) = Len(in_places)
           /\ \E f \in IndexPermutations(Len(in_places)) :
                /\ \A k \in 1..Len(in_places) : out_places[k] = in_places[f[k]]
                /\ \A k \in 1..(Len(in_places) - 1) :
                     \/ RatingOrZero(in_places[f[k]]) > RatingOrZero(in_places[f[k + 1]])
                     \/ /\ RatingOrZero(in_places[f[k]]) = RatingOrZero(in_places[f[k + 1]])
                        /\ f[k] < f[k + 1]

----------------------------------------------------------------------------
(* More text operations used by the extraction (scraper/google_maps.py) *)

\* whether s holds sub at position k
HasAt(s, sub, k) ==
    /\ k + Len(sub) - 1 <= Len(s)
    /\ \A j \in 1..Len(sub) : s[k + j - 1] = sub[j]

\* sub in s
Contains(s, sub) == \E k \in 1..(Len(s) + 1) : HasAt(s, sub, k)

\* s.replace(old, new), old not empty
RECURSIVE Replace(_, _, _)
Replace(s, old, new) ==
    IF s = <<>> THEN <<>>
    ELSE IF HasAt(s, old, 1)
         THEN new \o Replace(SubSeq(s, Len(old) + 1, Len(s)), old, new)
         ELSE <<Head(s)>> \o Replace(Tail(s), old, new)

\* s.split('\n')[0]
FirstLine(s) ==
    IF \E k \in 1..Len(s) : s[k] = "\n"
    THEN SubSeq(s, 1, (CHOOSE k \in 1..Len(s) :
                          s[k] = "\n" /\ \A j \in 1..(k - 1) : s[j] # "\n") - 1)
    ELSE s

----------------------------------------------------------------------------
(* The detail panel and _extract_side_panel_info *)

\* an element of the page: found with this text (or attribute value), or
\* not found, in which case the lookup raises
El(t) == [found |-> TRUE, text |-> t]
NoEl == [found |-> FALSE, text |-> <<>>]

AddressLabel == <<"A","d","d","r","e","s","s",":"," ">>
PhoneLabel == <<"P","h","o","n","e",":"," ">>

\* lines 128-134: the rating container and the review span are read in one
\* try block, so a missing container leaves both defaults in place
PanelRating(panel) ==
    IF panel.rating.found THEN Strip(FirstLine(panel.rating.text))
    ELSE <<"0", ".", "0">>

PanelReviews(panel) ==
    IF panel.rating.found /\ panel.reviews.found
    THEN Strip(Replace(Replace(Replace(panel.reviews.text, <<"(">>, <<>>),
                               <<")">>, <<>>), <<",">>, <<>>))
    ELSE <<"0">>

PanelCategory(panel) ==
    IF panel.category.found THEN panel.category.text ELSE NA

PanelAddress(panel) ==
    IF panel.address.found THEN Replace(panel.address.text, AddressLabel, <<>>)
    ELSE NA

PanelPhone(panel) ==
    IF panel.phone.found THEN Replace(panel.phone.text, PhoneLabel, <<>>) ELSE NA

(* The website link: lines 152-162 *)

\* index of the first c in s, 0 when there is none
IndexOf(s, c) ==
    IF \E k \in 1..Len(s) : s[k] = c
    THEN CHOOSE k \in 1..Len(s) : s[k] = c /\ \A j \in 1..(k - 1) : s[j] # c
    ELSE 0

BeforeFirst(s, c) == IF IndexOf(s, c) = 0 THEN s ELSE SubSeq(s, 1, IndexOf(s, c) - 1)

AfterFirst(s, c) ==
    IF IndexOf(s, c) = 0 THEN <<>> ELSE SubSeq(s, IndexOf(s, c) + 1, Len(s))

\* s.split(c)
RECURSIVE SplitOn(_, _)
SplitOn(s, c) ==
    IF IndexOf(s, c) = 0 THEN <<s>>
    ELSE <<BeforeFirst(s, c)>> \o SplitOn(AfterFirst(s, c), c)

\* urlparse(url).query: the fragment is cut at the first "#", then the query
\* is what follows the first "?"
UrlQuery(url) == AfterFirst(BeforeFirst(url, "#"), "?")

\* the percent escapes unquote() meets in the model's links: hex pair, character
Escapes ==
    { <<"3", "A", ":">>, <<"2", "F", "/">>, <<"3", "F", "?">>, <<"3", "D", "=">>,
      <<"2", "6", "&">>, <<"2", "5", "%">>, <<"2", "0", " ">>, <<"7", "1", "q">>,
      <<"2", "B", "+">>, <<"2", "3", "#">> }

IsEscape(h1, h2) == \E e \in Escapes : e[1] = h1 /\ e[2] = h2

\* urllib.parse.unquote
RECURSIVE Unquote(_)
Unquote(s) ==
    IF s = <<>> THEN <<>>
    ELSE IF Head(s) = "%" /\ Len(s) >= 3 /\ IsEscape(s[2], s[3])
         THEN <<(CHOOSE e \in Escapes : e[1] = s[2] /\ e[2] = s[3])[3]>>
              \o Unquote(SubSeq(s, 4, Len(s)))
         ELSE <<Head(s)>> \o Unquote(Tail(s))

\* what parse_qsl does to a name or a value
QsDecode(s) == Unquote(Replace(s, <<"+">>, <<" ">>))

\* parse_qs(query).get('q'): the values of the fields named q, in order; a
\* field without "=" or with an empty value is dropped
QValues(query) ==
    LET fields  == SplitOn(query, "&")
        IsQ(f)  == /\ IndexOf(f, "=") # 0
                   /\ AfterFirst(f, "=") # <<>>
                   /\ QsDecode(BeforeFirst(f, "=")) = <<"q">>
        qfields == SelectSeq(fields, IsQ)
    IN  [k \in 1..Len(qfields) |-> QsDecode(AfterFirst(qfields[k], "="))]

RedirectMarker == <<"g","o","o","g","l","e",".","c","o","m","/","u","r","l","?">>

\* a variant that cuts the link after its first "q=" by hand
CleanWebsiteAfterMarker(raw_url) ==
    IF Contains(raw_url, RedirectMarker)
    THEN LET k == CHOOSE j \in 1..Len(raw_url) :
                      /\ HasAt(raw_url, <<"q", "=">>, j)
                      /\ \A i \in 1..(j - 1) : ~HasAt(raw_url, <<"q", "=">>, i)
         IN  IF \E j \in 1..Len(raw_url) : HasAt(raw_url, <<"q", "=">>, j)
             THEN SubSeq(raw_url, k + 2, Len(raw_url)) ELSE raw_url
    ELSE raw_url

CleanWebsite(raw_url) ==
    IF Contains(raw_url, RedirectMarker)
    THEN IF QValues(UrlQuery(raw_url)) # <<>>
         THEN QValues(UrlQuery(raw_url))[1]
         ELSE raw_url
    ELSE raw_url

PanelWebsite(panel) ==
    IF panel.website.found THEN CleanWebsite(panel.website.text) ELSE NA

\* the value returned: <<>> is None (the wait for the name element timed
\* out), <<data>> is the mapping
extract_side_panel_info(panel) ==
    IF ~panel.name.found THEN <<>>
    ELSE << Place(panel.name.text, PanelAddress(panel), PanelPhone(panel),
                  PanelWebsite(panel),
                  PanelCategory(panel), PanelRating(panel), PanelReviews(panel)) >>

----------------------------------------------------------------------------
(* The command-line run: main() calling search_places and the writers *)

\* --max-results when the option is not given
DefaultMaxResults == 20

RunArgs ==
    [min_rating : {0, 450},
     sort_by : {"None", "rating", "reviews", "name"},
     format : {"xlsx", "json", "both"},
     max_results : {0 - 1, 1, DefaultMaxResults}]

Panel(name, rating, reviews, address) ==
    [name |-> name, rating |-> rating, reviews |-> reviews, category |-> NoEl,
     address |-> address, phone |-> NoEl, website |-> NoEl]

AddressX == El(AddressLabel \o <<"x">>)

\* what the detail panel can show after a click: a place seen twice with
\* different ratings, the header "Results", an advertisement label in two
\* spellings, a rating with a decimal comma, an empty heading, and a panel
\* whose heading never appears
Panels ==
    { Panel(El(<<"a">>), El(<<"4", ".", "1">>), El(<<"(", "5", ")">>), AddressX),
      Panel(El(<<"a">>), El(<<"4", ".", "7", "\n", "(", "9", ")">>),
            El(<<"(", "1", ",", "2", "3", "4", ")">>), AddressX),
      Panel(El(<<"R","e","s","u","l","t","s">>), El(<<"4", ".", "7">>), NoEl, NoEl),
      Panel(El(<<"S","p","o","n","s","o","r","e","d">>), El(<<"4", ".", "7">>), NoEl, NoEl),
      Panel(El(<<"s","p","o","n","s","o","r","e","d">>), NoEl, NoEl, NoEl),
      Panel(El(<<"b">>), El(<<"4", ",", "5">>), NoEl, NoEl),
      Panel(El(<<>>), NoEl, NoEl, NoEl),
      Panel(NoEl, NoEl, NoEl, NoEl) }

Min(a, b) == IF a <= b THEN a ELSE b

Init ==
    /\ pc = "initialize_driver" /\ args \in RunArgs
    /\ driver = "None" /\ opened = 0 /\ exc = "none"
    /\ total = 0 /\ idx = 0 /\ places = <<>> /\ scraped = <<>> /\ results = <<>>
    /\ xlsx_file = NoFile /\ json_file = NoFile
    /\ log = {} /\ printed = {} /\ exit_code = 0
    /\ fn = "none" /\ in_places = <<>> /\ in_min_rating = 0
    /\ in_descending = TRUE /\ out_places = <<>>
    /\ visits = <<>> /\ found = 0 /\ current = 0 /\ IdleUnit

\* an exception raised inside the try block of search_places: line 66 logs it
\* and the call returns [] once the finally block has run
SearchFails(cause) ==
    /\ log' = log \cup {"error: Error during search", cause}
    /\ scraped' = <<>>
    /\ pc' = "finally"
    /\ UNCHANGED exc

\* Ctrl-C inside the try block: no handler of search_places catches it, the
\* finally block runs and the exception reaches main
SearchInterrupted ==
    /\ exc' = "KeyboardInterrupt"
    /\ pc' = "finally"
    /\ UNCHANGED <<log, scraped>>

InitializeDriver ==
    /\ pc = "initialize_driver"
    /\ \/ /\ driver' = "open" /\ opened' = opened + 1
          /\ pc' = "get"
          /\ UNCHANGED <<log, scraped, exc>>
       \/ /\ SearchFails("error: Failed to initialize WebDriver")
          /\ UNCHANGED <<driver, opened>>
       \/ /\ SearchInterrupted
          /\ UNCHANGED <<driver, opened>>
    /\ UNCHANGED <<args, total, idx, places, results, xlsx_file, json_file,
                   printed, exit_code, libVars, unitVars, visits, found, current>>

Navigate ==
    /\ pc = "get"
    /\ \/ pc' = "wait_feed" /\ UNCHANGED <<log, scraped, exc>>
       \/ SearchFails("exception: driver.get")
       \/ SearchInterrupted
    /\ UNCHANGED <<args, driver, opened, total, idx, places, results, xlsx_file,
                   json_file, printed, exit_code, libVars, unitVars, visits, found, current>>

WaitFeed ==
    /\ pc = "wait_feed"
    /\ \/ pc' = "extract" /\ UNCHANGED <<log, scraped, exc>>
       \/ /\ pc' = "extract"
          /\ log' = log \cup {"warning: Results feed not detected."}
          /\ UNCHANGED <<scraped, exc>>
       \/ SearchFails("exception: wait.until")
       \/ SearchInterrupted
    /\ UNCHANGED <<args, driver, opened, total, idx, places, results, xlsx_file,
                   json_file, printed, exit_code, libVars, unitVars, visits, found, current>>

\* a variant that forgets the cap: every result found is processed
FindElementsUncapped ==
    /\ pc = "extract"
    /\ \/ \E n \in 0..MaxElements :
            /\ found' = n
            /\ total' = n
            /\ idx' = 0 /\ places' = <<>>
            /\ pc' = "loop"
            /\ UNCHANGED <<log, scraped, exc>>
       \/ /\ log' = log \cup {"error: Extraction failed"}
          /\ scraped' = <<>> /\ pc' = "finally"
          /\ UNCHANGED <<total, idx, places, exc, found>>
    /\ UNCHANGED <<args, driver, opened, results, xlsx_file, json_file, printed,
                   exit_code, libVars, unitVars, visits, current>>

\* _extract_places up to the loop: _scroll_page swallows whatever it raises;
\* find_elements raising is logged at line 108 and the empty list returned
FindElements ==
    /\ pc = "extract"
    /\ \/ \E n \in 0..MaxElements :
            /\ found' = n
            /\ total' = Min(n, args.max_results)
            /\ idx' = 0 /\ places' = <<>>
            /\ pc' = "loop"
            /\ UNCHANGED <<log, scraped, exc>>
       \/ /\ log' = log \cup {"error: Extraction failed"}
          /\ scraped' = <<>> /\ pc' = "finally"
          /\ UNCHANGED <<total, idx, places, exc, found>>
    /\ UNCHANGED <<args, driver, opened, results, xlsx_file, json_file, printed,
                   exit_code, libVars, unitVars, visits, current>>

\* how a round of the loop ended: a record appended, the heading "Results"
\* dropped, no panel within the timeout (None), or an exception caught
VisitOutcome(place_info) ==
    IF place_info = <<>> THEN "timeout"
    ELSE IF Lower(place_info[1].name) = <<"r","e","s","u","l","t","s">>
         THEN "header" ELSE "record"

\* a variant without the try block inside the loop: what a round raises
\* ends the loop, is logged at line 108, and the list so far is returned
VisitCandidateUnguarded ==
    /\ pc = "loop" /\ idx < total
    /\ \/ \E m \in 0..MaxElements :
            /\ idx >= m
            /\ current' = m
            /\ scraped' = places /\ pc' = "finally"
            /\ UNCHANGED <<idx, places, exc, visits, log>>
       \/ \E m \in 1..MaxElements, panel \in Panels :
            /\ idx < m
            /\ current' = m
            /\ LET place_info == extract_side_panel_info(panel)
               IN  /\ places' = IF VisitOutcome(place_info) = "record"
                                THEN Append(places, place_info[1]) ELSE places
                   /\ visits' = Append(visits, VisitOutcome(place_info))
            /\ idx' = idx + 1
            /\ UNCHANGED <<pc, scraped, exc, log>>
       \/ /\ visits' = Append(visits, "raised")
          /\ \/ UNCHANGED current
             \/ \E m \in (idx + 1)..MaxElements : current' = m
          /\ log' = log \cup {"error: Extraction failed"}
          /\ scraped' = places /\ pc' = "finally"
          /\ UNCHANGED <<idx, places, exc>>
       \/ /\ exc' = "KeyboardInterrupt" /\ pc' = "finally"
          /\ UNCHANGED <<idx, places, scraped, visits, log, current>>
    /\ UNCHANGED <<args, driver, opened, total, results, xlsx_file, json_file,
                   printed, exit_code, libVars, unitVars, found>>

\* one round of the loop at index idx; m is the length of the re-queried list
VisitCandidate ==
    /\ pc = "loop" /\ idx < total
    /\ \/ \E m \in 0..MaxElements :
            /\ idx >= m
            /\ current' = m
            /\ scraped' = places /\ pc' = "finally"
            /\ UNCHANGED <<idx, places, exc, visits>>
       \/ \E m \in 1..MaxElements, panel \in Panels :
            /\ idx < m
            /\ current' = m
            /\ LET place_info == extract_side_panel_info(panel)
               IN  /\ places' = IF VisitOutcome(place_info) = "record"
                                THEN Append(places, place_info[1]) ELSE places
                   /\ visits' = Append(visits, VisitOutcome(place_info))
            /\ idx' = idx + 1
            /\ UNCHANGED <<pc, scraped, exc>>
       \/ \* find_elements raises, or the click on one of the m elements
          \* does: caught at line 104
          /\ visits' = Append(visits, "raised")
          /\ \/ UNCHANGED current
             \/ \E m \in (idx + 1)..MaxElements : current' = m
          /\ idx' = idx + 1
          /\ UNCHANGED <<pc, places, scraped, exc>>
       \/ /\ exc' = "KeyboardInterrupt" /\ pc' = "finally"
          /\ UNCHANGED <<idx, places, scraped, visits, current>>
    /\ UNCHANGED <<args, driver, opened, total, results, xlsx_file, json_file,
                   log, printed, exit_code, libVars, unitVars, found>>

LoopDone ==
    /\ pc = "loop" /\ idx >= total
    /\ scraped' = places /\ pc' = "finally"
    /\ UNCHANGED <<args, driver, opened, exc, total, idx, places, results,
                   xlsx_file, json_file, log, printed, exit_code, libVars, unitVars, visits, found, current>>

\* a variant that closes the session at the end of the try body only, so not
\* after an exception
CloseDriverWithoutFinally ==
    /\ pc = "finally"
    /\ driver' = IF driver = "open" /\ exc = "none"
                    /\ "error: Error during search" \notin log
                 THEN "quit" ELSE driver
    /\ log' = log
    /\ pc' = IF exc = "KeyboardInterrupt" THEN "interrupted" ELSE "returned"
    /\ found' = 0 /\ current' = 0
    /\ UNCHANGED <<args, opened, exc, total, idx, places, scraped, results,
                   xlsx_file, json_file, printed, exit_code, libVars, unitVars, visits>>

\* the finally block of search_places, then the return or the re-raise; the
\* element counts were locals of _extract_places, which has returned
CloseDriver ==
    /\ pc = "finally"
    /\ driver' = IF driver = "open" THEN "quit" ELSE driver
    /\ log' = IF driver = "open" THEN log \cup {"info: WebDriver closed"} ELSE log
    /\ pc' = IF exc = "KeyboardInterrupt" THEN "interrupted" ELSE "returned"
    /\ found' = 0 /\ current' = 0
    /\ UNCHANGED <<args, opened, exc, total, idx, places, scraped, results,
                   xlsx_file, json_file, printed, exit_code, libVars, unitVars, visits>>

\* main, lines 135-141: the "no results" return ends the process normally,
\* with the exit status a returning main leaves
CheckResults ==
    /\ pc = "returned"
    /\ results' = scraped
    /\ IF scraped = <<>>
       THEN /\ printed' = printed \cup {"No results found."}
            /\ log' = log \cup {"warning: No results found"}
            /\ pc' = "exited"
            /\ UNCHANGED exit_code
       ELSE /\ pc' = "filter"
            /\ UNCHANGED <<printed, log, exit_code>>
    /\ UNCHANGED <<args, driver, opened, exc, total, idx, places, scraped,
                   xlsx_file, json_file, libVars, unitVars, visits, found, current>>

\* a variant whose interrupt handler exits with status 1
HandleInterruptExitOne ==
    /\ pc = "interrupted"
    /\ printed' = printed \cup {"Scraping interrupted by user"}
    /\ log' = log \cup {"warning: Scraping interrupted by user"}
    /\ exit_code' = 1 /\ pc' = "exited"
    /\ UNCHANGED <<args, driver, opened, exc, total, idx, places, scraped,
                   results, xlsx_file, json_file, libVars, unitVars, visits, found, current>>

\* main, lines 196-199
HandleInterrupt ==
    /\ pc = "interrupted"
    /\ printed' = printed \cup {"Scraping interrupted by user"}
    /\ log' = log \cup {"warning: Scraping interrupted by user"}
    /\ exit_code' = 0 /\ pc' = "exited"
    /\ UNCHANGED <<args, driver, opened, exc, total, idx, places, scraped,
                   results, xlsx_file, json_file, libVars, unitVars, visits, found, current>>

\* main, lines 144-146: the filter runs only for a positive --min-rating
FilterStep(ps) ==
    IF args.min_rating > 0 THEN filter_places_by_rating(ps, args.min_rating) ELSE ps

\* main, lines 155-159: --sort-by name sorts nothing
SortStep(ps) ==
    CASE args.sort_by = "rating" -> sort_places_by_rating(ps, TRUE)
      [] args.sort_by = "reviews" -> sort_places_by_reviews(ps, TRUE)
      [] OTHER -> ps

\* main, lines 143-148
ApplyFilter ==
    /\ pc = "filter"
    /\ results' = FilterStep(results)
    /\ pc' = "merge"
    /\ UNCHANGED <<args, driver, opened, exc, total, idx, places, scraped,
                   xlsx_file, json_file, log, printed, exit_code, libVars, unitVars, visits, found, current>>

\* a variant that deduplicates the list search_places returned, losing the
\* filter applied before
RemoveDuplicatesOfScraped ==
    /\ pc = "merge"
    /\ results' = merge_duplicate_places(scraped)
    /\ pc' = "sort"
    /\ UNCHANGED <<args, driver, opened, exc, total, idx, places, scraped,
                   xlsx_file, json_file, log, printed, exit_code, libVars, unitVars, visits, found, current>>

\* main, lines 150-152
RemoveDuplicates ==
    /\ pc = "merge"
    /\ results' = merge_duplicate_places(results)
    /\ pc' = "sort"
    /\ UNCHANGED <<args, driver, opened, exc, total, idx, places, scraped,
                   xlsx_file, json_file, log, printed, exit_code, libVars, unitVars, visits, found, current>>

\* main, lines 154-160
SortResults ==
    /\ pc = "sort"
    /\ results' = SortStep(results)
    /\ pc' = "save_xlsx"
    /\ UNCHANGED <<args, driver, opened, exc, total, idx, places, scraped,
                   xlsx_file, json_file, log, printed, exit_code, libVars, unitVars, visits, found, current>>

\* the rows save_to_excel keeps: lines 178-180
ExcelRows(ps) ==
    LET Keep(place) ==
            /\ place.name # <<"S","p","o","n","s","o","r","e","d">>
            /\ Lower(place.name) # <<"r","e","s","u","l","t","s">>
    IN  SelectSeq(ps, Keep)

\* what save_to_excel does with the list: nothing but a warning when it is
\* empty, else the file is written; the import or the write raising is
\* logged at line 185
save_to_excel ==
    \/ /\ results = <<>>
       /\ log' = log \cup {"warning: No places to save."}
       /\ UNCHANGED xlsx_file
    \/ /\ results # <<>>
       /\ xlsx_file' = [state |-> "written", rows |-> ExcelRows(results)]
       /\ log' = log \cup {"info: Successfully saved to xlsx"}
    \/ /\ log' = log \cup {"error: Excel save error"}
       /\ UNCHANGED xlsx_file

\* main, lines 166-169; Ctrl-C while writing reaches main's handler
SaveExcel ==
    /\ pc = "save_xlsx"
    /\ \/ /\ args.format \in {"xlsx", "both"}
          /\ save_to_excel
          /\ pc' = "save_json"
       \/ /\ args.format \in {"xlsx", "both"}
          /\ pc' = "interrupted"
          /\ UNCHANGED <<xlsx_file, log>>
       \/ /\ args.format \notin {"xlsx", "both"}
          /\ pc' = "save_json"
          /\ UNCHANGED <<xlsx_file, log>>
    /\ UNCHANGED <<args, driver, opened, exc, total, idx, places, scraped,
                   results, json_file, printed, exit_code, libVars, unitVars, visits, found, current>>

\* what save_to_json does: the list is dumped whatever its length; open()
\* raising leaves no file, a write raising leaves an incomplete one, and
\* either is logged and printed at lines 224-226
save_to_json ==
    \/ /\ json_file' = [state |-> "written", rows |-> results]
       /\ log' = log \cup {"info: Data saved to json"}
       /\ printed' = printed \cup {"Data saved to json"}
    \/ /\ \/ UNCHANGED json_file
          \/ json_file' = [state |-> "incomplete", rows |-> <<>>]
       /\ log' = log \cup {"error: Error saving to JSON"}
       /\ printed' = printed \cup {"Error saving to JSON"}

\* main, lines 171-173
SaveJson ==
    /\ pc = "save_json"
    /\ \/ /\ args.format \in {"json", "both"}
          /\ save_to_json
          /\ pc' = "summary"
       \/ /\ args.format \in {"json", "both"}
          /\ pc' = "interrupted"
          /\ UNCHANGED <<json_file, log, printed>>
       \/ /\ args.format \notin {"json", "both"}
          /\ pc' = "summary"
          /\ UNCHANGED <<json_file, log, printed>>
    /\ UNCHANGED <<args, driver, opened, exc, total, idx, places, scraped,
                   results, xlsx_file, exit_code, libVars, unitVars, visits, found, current>>

\* line 187 on the first five results: a non-empty rating text that float()
\* rejects raises ValueError
SummaryRaises ==
    \E k \in 1..Min(5, Len(results)) :
        results[k].rating # <<>> /\ PyFloat(results[k].rating).kind = "err"

\* main, lines 175-194, and the handler of lines 200-203
PrintSummary ==
    /\ pc = "summary"
    /\ IF SummaryRaises
       THEN /\ printed' = printed \cup {"Error during scraping"}
            /\ log' = log \cup {"error: Error during scraping"}
            /\ exit_code' = 1
       ELSE /\ printed' = printed \cup {"RESULTS SUMMARY"}
            /\ log' = log \cup {"info: Scraping completed successfully"}
            /\ UNCHANGED exit_code
    /\ pc' = "exited"
    /\ UNCHANGED <<args, driver, opened, exc, total, idx, places, scraped,
                   results, xlsx_file, json_file, libVars, unitVars, visits, found, current>>

Next ==
    \/ InitializeDriver \/ Navigate \/ WaitFeed \/ FindElements
    \/ VisitCandidate \/ LoopDone \/ CloseDriver
    \/ CheckResults \/ HandleInterrupt
    \/ ApplyFilter \/ RemoveDuplicates \/ SortResults
    \/ SaveExcel \/ SaveJson \/ PrintSummary

Spec == Init /\ [][Next]_vars

----------------------------------------------------------------------------
(* Claims about the run *)

ArtifactNames ==
    { <<"r","e","s","u","l","t","s">>, <<"s","p","o","n","s","o","r","e","d">> }

HasArtifactRow(file) ==
    \E k \in 1..Len(file.rows) : Lower(file.rows[k].name) \in ArtifactNames

\* C2: after a run, neither the spreadsheet nor the JSON file holds a record
\* whose name is "Results" or "Sponsored" in any letter case.
C2_NoArtifactNameInOutput ==
    pc = "exited" => ~HasArtifactRow(xlsx_file) /\ ~HasArtifactRow(json_file)

\* C5 as stated: the list handed to the writers is the scraped list
\* deduplicated, then filtered by rating, then sorted.
C5_DedupThenFilterThenSort ==
    pc = "save_xlsx"
        => results = SortStep(FilterStep(merge_duplicate_places(scraped)))

\* C5: the list handed to the writers is the scraped list filtered by rating
\* (for a positive threshold), then deduplicated, then sorted; a place whose
\* first record fails the filter is kept through a later record that passes.
C5_FilterThenDedupThenSort ==
    pc = "save_xlsx"
        => results = SortStep(merge_duplicate_places(FilterStep(scraped)))

\* C5, the case: the first record of a place fails the filter, a later one
\* passes, and the later one is what the writers receive
C5_LaterDuplicateSurvives ==
    /\ pc = "save_xlsx" /\ args.min_rating > 0
    /\ Len(scraped) = 2
    /\ CleanPair(scraped[1]) = CleanPair(scraped[2])
    /\ ~PassesRating(scraped[1], args.min_rating)
    /\ PassesRating(scraped[2], args.min_rating)
    /\ results = <<scraped[2]>>

\* C6: when the list that reached the writers is empty, the run creates no
\* output file, whatever the format selected.
C6_EmptyListWritesNoFile ==
    (pc = "exited" /\ results = <<>>)
        => xlsx_file.state = Absent /\ json_file.state = Absent

InSearch == {"initialize_driver", "get", "wait_feed", "extract", "loop", "finally"}

\* C7: once search_places has returned (or let an interrupt through), no
\* browser session opened by the call is still open.
C7_SessionClosedOnReturn ==
    pc \notin InSearch => (driver # "open" /\ (opened > 0 => driver = "quit"))

\* C7, the case: a session was opened, driver.get raised, and the call has
\* returned with the session quit
C7_ClosedAfterNavigationFailure ==
    /\ pc = "returned" /\ opened = 1 /\ driver = "quit"
    /\ "exception: driver.get" \in log

RunSucceeded == "info: Scraping completed successfully" \in log
RunFoundNothing == "No results found." \in printed
RunInterrupted == "Scraping interrupted by user" \in printed
RunFailed == "Error during scraping" \in printed

\* C8 as stated: exit status zero on success and on "no results" (no file
\* written), non-zero on an error and on user interruption.
C8_ExitStatusNonZeroOnInterrupt ==
    pc = "exited"
        => /\ (RunSucceeded \/ RunFoundNothing) => exit_code = 0
           /\ RunFoundNothing => xlsx_file = NoFile /\ json_file = NoFile
           /\ (RunFailed \/ RunInterrupted) => exit_code # 0

\* C8: exit status zero on success, on "no results" (no file written) and on
\* user interruption; non-zero exactly when an exception other than
\* KeyboardInterrupt reaches the handler of main.
C8_ExitStatus ==
    pc = "exited"
        => /\ (RunSucceeded \/ RunFoundNothing \/ RunInterrupted) => exit_code = 0
           /\ RunFoundNothing => xlsx_file = NoFile /\ json_file = NoFile
           /\ RunFailed => exit_code # 0
           /\ RunSucceeded \/ RunFoundNothing \/ RunInterrupted \/ RunFailed

\* C8, the case: Ctrl-C during the search, after which the process has ended
C8_InterruptedExitsZero ==
    pc = "exited" /\ RunInterrupted /\ exit_code = 0 /\ driver = "quit"

\* C9: when the browser fails to launch or the navigation fails, the search
\* returns no results, an error is reported (by the logger or by main) and
\* the exit status is non-zero.
C9_SessionFailureExitsNonZero ==
    (/\ pc = "exited"
     /\ \/ "error: Failed to initialize WebDriver" \in log
        \/ "exception: driver.get" \in log)
        => /\ scraped = <<>>
           /\ ("error: Error during search" \in log \/ RunFailed)
           /\ exit_code # 0

WriteFailed ==
    "error: Excel save error" \in log \/ "error: Error saving to JSON" \in log

\* C10: when writing the spreadsheet or the JSON file fails (in a run the
\* user does not interrupt), the failure is logged, the process does not
\* crash, and the exit status is non-zero.
C10_WriteFailureExitsNonZero ==
    (pc = "exited" /\ WriteFailed /\ ~RunInterrupted) => exit_code # 0

----------------------------------------------------------------------------
(* One call of a text function of scraper/utils.py *)

\* longest generated text
MaxText == 4

TextChars == {"0", "1", "4", ".", "x"}

\* texts of the kinds the detail panel shows, and a very small number
ExampleTexts ==
    { <<"4", ".", "5", "\n", "(", "1", ",", "2", "3", "4", ")">>,
      <<"1", ",", "2", "3", "4", " ", "r", "e", "v", "i", "e", "w", "s">>,
      <<"(", "5", "8", ")">>,
      <<"4", ".", "7", " ", "s", "t", "a", "r", "s">>,
      <<"N", "/", "A">>,
      <<"1", "0", ".", "0">>,
      <<"0", ".", "0", "0", "0", "0", "1">> }

TextInputs == UNION { [1..n -> TextChars] : n \in 0..MaxText } \cup ExampleTexts

TextInit ==
    /\ pc = "text" /\ args = IdleArgs /\ driver = "None" /\ opened = 0
    /\ exc = "none" /\ total = 0 /\ idx = 0 /\ places = <<>> /\ scraped = <<>>
    /\ results = <<>> /\ xlsx_file = NoFile /\ json_file = NoFile
    /\ log = {} /\ printed = {} /\ exit_code = 0 /\ visits = <<>> /\ found = 0 /\ current = 0
    /\ fn = "none" /\ in_places = <<>>
    /\ in_min_rating = 0 /\ in_descending = TRUE /\ out_places = <<>>
    /\ in_text \in TextInputs /\ out_rating = FloatZero /\ out_count = 0
    /\ in_dom = <<>> /\ in_attr = FALSE /\ in_panel = <<>>
    /\ out_text = <<>> /\ out_info = <<>>

CallExtractRating ==
    /\ pc = "text" /\ fn = "none"
    /\ fn' = "extract_rating"
    /\ out_rating' = extract_rating(in_text)
    /\ UNCHANGED <<runVars, in_places, in_min_rating, in_descending, out_places,
                   in_text, out_count, in_dom, in_attr, in_panel, out_text, out_info>>

CallExtractReviewCount ==
    /\ pc = "text" /\ fn = "none"
    /\ fn' = "extract_review_count"
    /\ out_count' = extract_review_count(in_text)
    /\ UNCHANGED <<runVars, in_places, in_min_rating, in_descending, out_places,
                   in_text, out_rating, in_dom, in_attr, in_panel, out_text, out_info>>

TextNext == CallExtractRating \/ CallExtractReviewCount

TextSpec == TextInit /\ [][TextNext]_vars

----------------------------------------------------------------------------
(* Claims about the text functions *)

\* every character of both digit runs is a digit: d is a number
IsNumber(d) ==
    /\ \A k \in 1..Len(d.ip) : IsDigit(d.ip[k])
    /\ \A k \in 1..Len(d.fp) : IsDigit(d.fp[k])

\* C11 as stated: extract_rating returns the number denoted by the first
\* "single digit, decimal point, single digit" of the text, and no number at
\* all (so not zero) when the text holds no such fragment.
C11_FirstDigitDotDigitElseUndefined ==
    fn = "extract_rating" =>
        IF FirstDigitDotDigit(in_text) # <<>>
        THEN out_rating = [ip |-> StripLeadingZeros(<<FirstDigitDotDigit(in_text)[1]>>),
                           fp |-> StripTrailingZeros(<<FirstDigitDotDigit(in_text)[3]>>)]
        ELSE ~IsNumber(out_rating)

\* the digits of ds followed by zeros up to length n
PadRight(ds, n) == ds \o [k \in 1..(n - Len(ds)) |-> "0"]

\* d is the number with integer digits int and fractional digits frac
Denotes(d, int, frac) ==
    LET n == IF Len(d.fp) >= Len(frac) THEN Len(d.fp) ELSE Len(frac)
    IN  /\ DigitsValue(d.ip) = DigitsValue(int)
        /\ DigitsValue(PadRight(d.fp, n)) = DigitsValue(PadRight(frac, n))

\* the longest run of digits of s that starts at p
DigitRun(s, p) ==
    LET ends == { q \in (p - 1)..Len(s) : \A j \in p..q : IsDigit(s[j]) }
    IN  SubSeq(s, p, CHOOSE q \in ends : \A r \in ends : r <= q)

\* C11 amended: extract_rating returns the number denoted by the first
\* fragment "one or more digits, then possibly a decimal point and further
\* digits" of the text, and the number 0.0 when the text holds no digit.
C11_FirstNumberElseZero ==
    fn = "extract_rating" =>
        IF \E k \in 1..Len(in_text) : IsDigit(in_text[k])
        THEN LET p    == CHOOSE k \in 1..Len(in_text) :
                            IsDigit(in_text[k]) /\ \A j \in 1..(k - 1) : ~IsDigit(in_text[j])
                 int  == DigitRun(in_text, p)
                 q    == p + Len(int)
                 frac == IF q <= Len(in_text) /\ in_text[q] = "."
                         THEN DigitRun(in_text, q + 1) ELSE <<>>
             IN  Denotes(out_rating, int, frac)
        ELSE out_rating = FloatZero

\* "10.0" gives 10.0, and "N/A" gives 0.0
C11_TenPointZero ==
    /\ fn = "extract_rating"
    /\ in_text = <<"1", "0", ".", "0">>
    /\ out_rating = [ip |-> <<"1", "0">>, fp |-> <<>>]

\* C12 as stated: rating normalization is idempotent: normalizing the textual
\* form of the value extract_rating returned gives that value again, for
\* every raw rating text.
C12_Idempotent ==
    fn = "extract_rating" => extract_rating(FloatStr(out_rating)) = out_rating

\* the textual form of d is positional: d is zero, or at least 0.0001 and
\* below 1e16
Positional(d) ==
    IF d.ip = <<>> THEN LeadingZeros(d.fp) < 4 ELSE Len(d.ip) <= 16

\* C12 amended: normalizing the textual form of the value extract_rating
\* returned gives that value again whenever the value is zero or lies
\* between 0.0001 and 1e16, where its textual form has no exponent.
C12_IdempotentOnPositional ==
    (fn = "extract_rating" /\ Positional(out_rating))
        => extract_rating(FloatStr(out_rating)) = out_rating

\* 4.5 read from a two-line panel text, and read again from "4.5"
C12_FourPointFiveAgain ==
    /\ fn = "extract_rating"
    /\ in_text = <<"4", ".", "5", "\n", "(", "1", ",", "2", "3", "4", ")">>
    /\ FloatStr(out_rating) = <<"4", ".", "5">>
    /\ extract_rating(FloatStr(out_rating)) = out_rating

\* the integer read off the digits of s from left to right, starting from acc
RECURSIVE ReadDigits(_, _)
ReadDigits(s, acc) ==
    IF s = <<>> THEN acc
    ELSE IF IsDigit(Head(s))
         THEN ReadDigits(Tail(s), 10 * acc + DigitVal(Head(s)))
         ELSE ReadDigits(Tail(s), acc)

\* C13: extract_review_count returns the integer denoted by the digits of
\* the text in order, every other character removed, and 0 when the text is
\* empty or has no digit; "1,234 reviews" gives 1234, "" gives 0 and "(58)"
\* gives 58.
C13_DigitsOfTheText ==
    fn = "extract_review_count" =>
        /\ out_count = ReadDigits(in_text, 0)
        /\ (\A k \in 1..Len(in_text) : ~IsDigit(in_text[k])) => out_count = 0
        /\ in_text = <<"1", ",", "2", "3", "4", " ", "r", "e", "v", "i", "e", "w", "s">>
              => out_count = 1234
        /\ in_text = <<>> => out_count = 0
        /\ in_text = <<"(", "5", "8", ")">> => out_count = 58

C13_ThousandsSeparator ==
    /\ fn = "extract_review_count"
    /\ in_text = <<"1", ",", "2", "3", "4", " ", "r", "e", "v", "i", "e", "w", "s">>
    /\ out_count = 1234

----------------------------------------------------------------------------
(* One call of a function that reads the page *)

\* most selectors handed to the field extractor
MaxSelectors == 3

\* what a selector of the list finds: an element with this text and this
\* value of the named attribute, no element, or an element gone stale before
\* it is read (both raise)
Found(t, a) == [status |-> "found", text |-> t, label |-> a]
Missing == [status |-> "missing", text |-> <<>>, label |-> <<>>]
Stale == [status |-> "stale", text |-> <<>>, label |-> <<>>]

\* a variant that stops at the first selector that matches an element, empty
\* value or not
safe_extract_first_match(dom, attr) ==
    IF \A k \in 1..Len(dom) : dom[k].status # "found" THEN NA
    ELSE LET k     == CHOOSE i \in 1..Len(dom) :
                          dom[i].status = "found"
                          /\ \A j \in 1..(i - 1) : dom[j].status # "found"
             value == IF attr THEN dom[k].label ELSE dom[k].text
         IN  IF Strip(value) # <<>> THEN value ELSE NA

\* the field extractor of section 4.1, called as safe_extract(driver,
\* selectors, attr=...): the selectors are tried in order, the first value
\* that is not empty once trimmed is returned, "N/A" when there is none
RECURSIVE safe_extract(_, _)
safe_extract(dom, attr) ==
    IF dom = <<>> THEN NA
    ELSE LET value == IF attr THEN Head(dom).label ELSE Head(dom).text
         IN  IF Head(dom).status = "found" /\ Strip(value) # <<>>
             THEN value
             ELSE safe_extract(Tail(dom), attr)

SelectorOutcomes ==
    { Missing, Stale,
      Found(<<"a">>, <<"L">>), Found(<<" ">>, <<>>), Found(<<>>, <<" ", "b">>) }

DomInputs == UNION { [1..n -> SelectorOutcomes] : n \in 0..MaxSelectors }

(* links of the website button *)

RedirectBase == <<"h", ":", "/", "/", "w", "w", "w", ".", "g", "o", "o", "g", "l",
    "e", ".", "c", "o", "m", "/", "u", "r", "l", "?">>

\* quote(): the characters that would end or split a query value are escaped
RECURSIVE UrlQuote(_)
UrlQuote(s) ==
    IF s = <<>> THEN <<>>
    ELSE (IF \E e \in Escapes : e[3] = Head(s) /\ Head(s) \notin {":", "/", "q"}
          THEN LET e == CHOOSE x \in Escapes : x[3] = Head(s)
               IN  <<"%", e[1], e[2]>>
          ELSE <<Head(s)>>)
         \o UrlQuote(Tail(s))

\* destinations: a plain site, one with a query of its own, one with a
\* space, a plus, a percent sign and a fragment
Destinations ==
    { <<"h", ":", "/", "/", "e", ".", "c">>,
      <<"e", ".", "c", "/", "?", "a", "=", "1", "&", "b">>,
      <<"a", " ", "+", "%", "#", "b">> }

QueryBefore == { <<>>, <<"s", "a", "=", "t", "&">> }
QueryAfter == { <<>>, <<"&", "s", "a", "=", "U">>, <<"&", "q", "=", "x">>, <<"#", "q", "=", "y">> }

BuildRedirect(before, dest, after) ==
    RedirectBase \o before \o <<"q", "=">> \o UrlQuote(dest) \o after

ExampleRedirect ==
    <<"h", "t", "t", "p", "s", ":", "/", "/", "w", "w", "w", ".", "g",
    "o", "o", "g", "l", "e", ".", "c", "o", "m", "/", "u", "r",
    "l", "?", "q", "=", "h", "t", "t", "p", "s", ":", "/", "/",
    "e", "x", "a", "m", "p", "l", "e", ".", "c", "o", "m", "&",
    "s", "a", "=", "U">>

ExampleSite == <<"h", "t", "t", "p", "s", ":", "/", "/", "e", "x", "a", "m", "p",
    "l", "e", ".", "c", "o", "m">>

UrlInputs ==
    { BuildRedirect(b, d, a) : b \in QueryBefore, d \in Destinations, a \in QueryAfter }
    \cup Destinations
    \cup { ExampleRedirect, ExampleSite, <<"h", ":", "/", "/", "e", ".", "c", "/", "?", "q", "=", "z">>,
           RedirectBase \o <<"s", "a", "=", "U">>, RedirectBase \o <<"q", "=", "&", "s", "a", "=", "U">> }

FullPanel(name, rating, reviews, category, address, phone, website) ==
    [name |-> name, rating |-> rating, reviews |-> reviews, category |-> category,
     address |-> address, phone |-> phone, website |-> website]

PresentRating == El(<<"4", ".", "7">> \o <<"\n">> \o <<"(", "9", ")">>)
PresentReviews == El(<<"(", "5", "8", ")">>)
PresentCategory == El(<<"c">>)
PresentAddress == El(AddressLabel \o <<"x">>)
PresentPhone == El(PhoneLabel \o <<"1">>)
PresentWebsite == El(<<"h", ":", "/", "/", "e", ".", "c">>)

\* a named place with each optional element there or not
PresencePanels ==
    { FullPanel(El(<<"a">>), r, v, c, a, p, w) :
        r \in {PresentRating, NoEl}, v \in {PresentReviews, NoEl},
        c \in {PresentCategory, NoEl}, a \in {PresentAddress, NoEl},
        p \in {PresentPhone, NoEl}, w \in {PresentWebsite, NoEl} }

WebsitePanels ==
    { FullPanel(El(<<"a">>), NoEl, NoEl, NoEl, NoEl, NoEl, El(u)) : u \in UrlInputs }

PanelInputs == PresencePanels \cup WebsitePanels \cup Panels

PageInit ==
    /\ pc = "page" /\ args = IdleArgs /\ driver = "None" /\ opened = 0
    /\ exc = "none" /\ total = 0 /\ idx = 0 /\ places = <<>> /\ scraped = <<>>
    /\ results = <<>> /\ xlsx_file = NoFile /\ json_file = NoFile
    /\ log = {} /\ printed = {} /\ exit_code = 0 /\ visits = <<>> /\ found = 0 /\ current = 0
    /\ fn = "none" /\ in_places = <<>>
    /\ in_min_rating = 0 /\ in_descending = TRUE /\ out_places = <<>>
    /\ in_text = <<>> /\ out_rating = FloatZero /\ out_count = 0
    /\ out_text = <<>> /\ out_info = <<>>
    /\ \/ \E panel \in PanelInputs :
            in_panel = <<panel>> /\ in_dom = <<>> /\ in_attr = FALSE
       \/ in_panel = <<>> /\ in_dom \in DomInputs /\ in_attr \in BOOLEAN

CallSafeExtract ==
    /\ pc = "page" /\ fn = "none" /\ in_panel = <<>>
    /\ fn' = "safe_extract"
    /\ out_text' = safe_extract(in_dom, in_attr)
    /\ UNCHANGED <<runVars, in_places, in_min_rating, in_descending, out_places,
                   in_text, out_rating, out_count, in_dom, in_attr, in_panel, out_info>>

CallExtractSidePanelInfo ==
    /\ pc = "page" /\ fn = "none" /\ in_panel # <<>>
    /\ fn' = "_extract_side_panel_info"
    /\ out_info' = extract_side_panel_info(in_panel[1])
    /\ UNCHANGED <<runVars, in_places, in_min_rating, in_descending, out_places,
                   in_text, out_rating, out_count, in_dom, in_attr, in_panel, out_text>>

PageNext == CallSafeExtract \/ CallExtractSidePanelInfo

PageSpec == PageInit /\ [][PageNext]_vars

----------------------------------------------------------------------------
(* Claims about the functions that read the page *)

\* the website of the record a panel call returned
WebsiteRead == out_info[1].website

\* C14: a raw link that holds the redirect marker gives the value of the
\* query parameter carrying the destination (the example link gives
\* "https://example.com"), and a raw link without the marker is the
\* record's website unchanged.
C14_WebsiteCleaning ==
    (fn = "_extract_side_panel_info" /\ out_info # <<>> /\ in_panel[1].website.found)
        => LET raw == in_panel[1].website.text
           IN  /\ \A b \in QueryBefore, d \in Destinations, a \in QueryAfter :
                     raw = BuildRedirect(b, d, a) => WebsiteRead = d
               /\ raw = ExampleRedirect => WebsiteRead = ExampleSite
               /\ ~Contains(raw, RedirectMarker) => WebsiteRead = raw

\* a destination with a query of its own, behind another parameter and
\* before a second q
C14_DestinationUnwrapped ==
    /\ fn = "_extract_side_panel_info" /\ out_info # <<>>
    /\ in_panel[1].website.found
    /\ in_panel[1].website.text =
          BuildRedirect(<<"s", "a", "=", "t", "&">>,
                        <<"e", ".", "c", "/", "?", "a", "=", "1", "&", "b">>,
                        <<"&", "q", "=", "x">>)
    /\ WebsiteRead = <<"e", ".", "c", "/", "?", "a", "=", "1", "&", "b">>

\* what the k-th selector of the call yields, and whether that is a value
ValueAt(k) == IF in_attr THEN in_dom[k].label ELSE in_dom[k].text
UsableAt(k) == in_dom[k].status = "found" /\ Strip(ValueAt(k)) # <<>>

\* C15: the field extractor returns the value of the first selector, in list
\* order, whose element is found with a value that is not empty once
\* trimmed; selectors that find nothing, whose element went stale or whose
\* value is empty are passed over; "N/A" is returned when none is left.
C15_FirstUsableSelectorElseNA ==
    fn = "safe_extract" =>
        IF \E k \in 1..Len(in_dom) : UsableAt(k)
        THEN \E k \in 1..Len(in_dom) :
                /\ UsableAt(k)
                /\ \A j \in 1..(k - 1) : ~UsableAt(j)
                /\ out_text = ValueAt(k)
        ELSE out_text = NA

\* a stale element, then a blank one, then the value
C15_ThirdSelectorUsed ==
    /\ fn = "safe_extract" /\ ~in_attr
    /\ in_dom = <<Stale, Found(<<" ">>, <<>>), Found(<<"a">>, <<"L">>)>>
    /\ out_text = <<"a">>

\* C20: the optional fields of a panel are read independently: a record is
\* produced, every optional field whose element is there holds the value
\* extracted from it and every other one its default; so the review count
\* is read even when the rating element is missing.
C20_FieldsReadIndependently ==
    (fn = "_extract_side_panel_info" /\ in_panel[1] \in PresencePanels)
        => /\ out_info # <<>>
           /\ LET panel == in_panel[1]
                  data  == out_info[1]
              IN  /\ data.rating = IF panel.rating.found
                                   THEN <<"4", ".", "7">> ELSE <<"0", ".", "0">>
                  /\ data.reviews = IF panel.reviews.found
                                    THEN <<"5", "8">> ELSE <<"0">>
                  /\ data.category = IF panel.category.found THEN <<"c">> ELSE NA
                  /\ data.address = IF panel.address.found THEN <<"x">> ELSE NA
                  /\ data.phone = IF panel.phone.found THEN <<"1">> ELSE NA
                  /\ data.website = IF panel.website.found
                                    THEN <<"h", ":", "/", "/", "e", ".", "c">> ELSE NA

----------------------------------------------------------------------------
(* Claims about the extraction loop *)

NamesNonEmpty(ps) == \A k \in 1..Len(ps) : ps[k].name # <<>>

\* C16: every record a run retains has a non-empty name: the list the loop
\* builds, the list search_places returns and the list main keeps through
\* filtering, deduplication and sorting hold no record with the name "".
C16_RetainedNamesNonEmpty ==
    NamesNonEmpty(places) /\ NamesNonEmpty(scraped) /\ NamesNonEmpty(results)

\* C17: a candidate whose panel does not appear within the timeout, or
\* whose click or extraction raises, adds no record, and the loop goes on
\* to the next index with the records collected so far.
C17_FailedCandidateSkipped ==
    [][ (/\ Len(visits') = Len(visits) + 1
         /\ visits'[Len(visits')] \in {"timeout", "raised"})
        => (/\ places' = places
            /\ pc' = "loop" /\ idx' = idx + 1 /\ total' = total
            /\ exc' = exc /\ log' = log) ]_vars

\* the first candidate timed out and the second one gave a record
C17_RecordAfterTimeout ==
    /\ visits = <<"timeout", "record">>
    /\ Len(places) = 1 /\ idx = 2

----------------------------------------------------------------------------
(* More claims about the aggregation functions *)

\* C18: sort_places_by_reviews in descending mode returns a permutation of
\* its input ordered by non-increasing normalized review count
\* (extract_review_count of the reviews text), equal counts in input order;
\* "1,234" or "58 reviews" count as 1234 and 58 and do not leave the list
\* unsorted.
C18_SortByNormalizedReviews ==
    (fn = "sort_places_by_reviews" /\ in_descending)
        => /\ Len(out_places) = Len(in_places)
           /\ \E f \in IndexPermutations(Len(in_places)) :
                /\ \A k \in 1..Len(in_places) : out_places[k] = in_places[f[k]]
                /\ \A k \in 1..(Len(in_places) - 1) :
                     LET this == extract_review_count(in_places[f[k]].reviews)
                         next == extract_review_count(in_places[f[k + 1]].reviews)
                     IN  this > next \/ (this = next /\ f[k] < f[k + 1])

\* C19: a call of merge_duplicate_places, filter_places_by_rating,
\* sort_places_by_rating or sort_places_by_reviews returns only records of
\* its input, each with the field values it had, and leaves the input list
\* as it was.
C19_RecordsAndInputUntouched ==
    [][ fn' # fn
        => (/\ in_places' = in_places
            /\ \A k \in 1..Len(out_places') :
                  \E j \in 1..Len(in_places) : out_places'[k] = in_places[j]) ]_vars

\* a duplicate was dropped and the record kept still has its uncleaned name
C19_UncleanedNameKept ==
    /\ fn = "merge_duplicate_places"
    /\ Len(in_places) = 2 /\ Len(out_places) = 1
    /\ out_places[1].name = <<" ", "a">>
    /\ out_places[1] = in_places[1]

\* a step that is one more round of the loop
IsVisit == Len(visits') = Len(visits) + 1

\* the rounds take the indices 0, 1, 2, ... in turn, each once
VisitsInIndexOrder == IsVisit => (idx = Len(visits) /\ idx' = idx + 1)

\* a step that leaves the loop with no exception in flight
LeavesLoop == pc = "loop" /\ pc' = "finally" /\ exc' = "none"

\* leaving before total_to_process rounds happens on a re-queried list too
\* short to hold the current index, and without a round for that index
StopsEarlyOnShortList ==
    (LeavesLoop /\ idx < total) => (current' <= idx /\ visits' = visits)

\* C21 as stated: the loop visits the candidates in increasing index order,
\* each at most once, at most min(results found at the start, max_results)
\* of them, stops early when the re-queried list no longer holds the
\* current index, and returns at most max_results records.
C21_AtMostMaxResults ==
    [][ /\ VisitsInIndexOrder
        /\ StopsEarlyOnShortList
        /\ pc' = "loop" => /\ Len(visits') <= Min(found', args.max_results)
                           /\ Len(places') <= args.max_results
        /\ LeavesLoop => Len(scraped') <= args.max_results ]_vars

Max(a, b) == IF a >= b THEN a ELSE b

\* C21 amended: as stated, the number of candidates visited and of records
\* returned being at most min(results found at the start, max_results) when
\* max_results is not negative, and none at all when it is.
C21_AtMostMaxResultsOrNone ==
    [][ /\ VisitsInIndexOrder
        /\ StopsEarlyOnShortList
        /\ pc' = "loop" => /\ Len(visits') <= Max(0, Min(found', args.max_results))
                           /\ Len(places') <= Max(0, args.max_results)
        /\ LeavesLoop => Len(scraped') <= Max(0, args.max_results) ]_vars

\* two results found and allowed, one left when the second round re-queried
C21_StoppedEarly ==
    /\ pc = "finally" /\ exc = "none"
    /\ found = 2 /\ total = 2 /\ args.max_results = DefaultMaxResults
    /\ idx = 1 /\ current = 1 /\ Len(visits) = 1 /\ Len(scraped) = 1

====
